---- MODULE Spec2Model ----
(***************************************************************************)
(* A model of ckpool's connector (src/src/connector.c): the client table   *)
(* with its live hash, dead list and recycled list, the Receiver thread    *)
(* (accept path, event path, parse path), the Sender thread (working list, *)
(* submission list, non-blocking writes) and the Control loop (outbound    *)
(* JSON messages, dropclient, passthrough, accept, reject).                *)
(*                                                                         *)
(* Every critical section of the table lock (cdata->lock) and of the       *)
(* sender lock is one atomic step; every access the code makes to shared   *)
(* memory outside a lock is a step of its own.                             *)
(***************************************************************************)
EXTENDS Integers, Sequences, FiniteSets, TLC

(***************************************************************************)
(* Bounds of the model.                                                    *)
(***************************************************************************)
\* connections the listener hands to accept_client
MaxAccepts == 2
\* connections when a structure is to be used a third time
MoreAccepts == MaxAccepts + 1
\* control messages the control loop receives
MaxCmds == 3
\* bytes of an outbound frame (strlen(buf) in send_client)
FrameLen == 1
\* outbound frames send_client is called with
MaxSends == 1
\* bytes a client sends while parse_client_msg is followed byte by byte
MaxStream == 5
\* MAX_MSGSIZE, scaled down from 1024 to the size of the streams
MAX_MSGSIZE == 3
\* PAGESIZE, the size of client->buf, scaled with it: room for two of the
\* largest messages
PAGESIZE == 2 * MAX_MSGSIZE

(***************************************************************************)
(* Configuration of the process (ckpool_t).                                *)
(***************************************************************************)
\* ckp->serverurls: the number of listeners, 1 when none is configured
serverurls == 1
\* ckp->maxclients: the configured maximum of live clients, 0 for no maximum
maxclients == 2

(***************************************************************************)
(* int64_t values as four 16-bit limbs <<l3, l2, l1, l0>>, two's           *)
(* complement, most significant limb first.                                *)
(***************************************************************************)
Limb == 256 * 256
HalfLimb == 128 * 256

RECURSIVE OrBits(_, _)
OrBits(a, b) ==
    IF a = 0 THEN b
    ELSE IF b = 0 THEN a
    ELSE (IF a % 2 = 1 \/ b % 2 = 1 THEN 1 ELSE 0) + 2 * OrBits(a \div 2, b \div 2)

\* a small non-negative integer as an int64_t
I64(n) == <<0, 0, n \div Limb, n % Limb>>
\* an int64_t from its high and low 32-bit halves, each given as two limbs
I64Of(h1, h0, l1, l0) == <<h1, h0, l1, l0>>
\* x << 32 (the bits shifted out are lost)
Shl32(x) == <<x[3], x[4], 0, 0>>
\* x >> 32 on a signed value: the sign is extended
Sar32(x) ==
    LET ext == IF x[1] >= HalfLimb THEN Limb - 1 ELSE 0
    IN <<ext, ext, x[1], x[2]>>
\* x & 0xffffffffll
And32(x) == <<0, 0, x[3], x[4]>>
\* x | y
Or64(x, y) == [i \in 1..4 |-> OrBits(x[i], y[i])]
\* x > 0xffffffffll, signed
GtU32(x) == x[1] < HalfLimb /\ (x[1] # 0 \/ x[2] # 0)
\* the int64_t -1
MinusOne == <<Limb - 1, Limb - 1, Limb - 1, Limb - 1>>

(***************************************************************************)
(* The state.                                                              *)
(***************************************************************************)
VARIABLES
    \* client_instance_t memory: rec[c] is the structure at address c
    rec,
    \* cdata->clients (the hash), cdata->dead_clients, cdata->recycled_clients
    clients, dead_clients, recycled_clients,
    \* cdata->client_id, cdata->nfds, cdata->clients_generated, cdata->dead_generated
    client_id, nfds, clients_generated, dead_generated,
    \* cdata->accept
    accept,
    \* ckp->passthrough: the whole process runs in passthrough mode
    ckp_passthrough,
    \* the process's descriptor table: fdtab[f] is the connection open at f
    fdtab,
    \* the event poller: epoll[f] is the event data registered for f
    epoll,
    \* connections handed out by accept(2) so far
    nconn,
    \* sock[c]: the connection accept(2) returned for the structure at c
    sock,
    \* cdata->sender_sends and the sender's own list, sends
    sender_sends, sends,
    \* cdata->sends_generated
    sends_generated,
    \* wire[k]: the bytes written so far to connection k
    wire,
    \* submitted[k]: the bytes of the frames send_client queued for
    \* connection k, in the order of the calls
    submitted,
    \* what the stratifier and the generator were sent
    stratifier, generator,
    \* the three threads: program counter and locals
    rcv, snd, ctl,
    \* control messages processed so far
    ncmds,
    \* ids of the clients invalidate_client has invalidated
    invalidated,
    \* one call sequence of parse_client_msg on one client, byte by byte
    parse,
    \* one message on its way through the frame decoration and back
    msg

vars == <<rec, clients, dead_clients, recycled_clients, client_id, nfds,
          clients_generated, dead_generated, accept, ckp_passthrough, fdtab,
          epoll, nconn, sock, sender_sends, sends, sends_generated, wire, submitted,
          stratifier, generator, rcv, snd, ctl, ncmds, invalidated, parse, msg>>

Recs == 1..MaxAccepts
NoRec == 0
Conns == 1..MoreAccepts
NoConn == 0
\* what fd 0 is open on when the process starts
Stdio == -1
FDs == 0..MaxAccepts
NoId == <<>>

\* a structure as ckzalloc returns it
ZeroRec == [id |-> 0, fd |-> 0, ref |-> 0, invalid |-> FALSE,
            passthrough |-> FALSE, server |-> 0]

\* client->id as the int64_t it is
Id64(n) == IF n < 0 THEN MinusOne ELSE I64(n)

\* the ids accept_client can assign within the bounds
ClientIds == serverurls..(serverurls + MaxAccepts - 1)
\* ids of subclients of the first client: (parent << 32) | sub
SubIds == {Or64(Shl32(I64(serverurls)), I64(s)) : s \in ClientIds}
\* the ids control messages name
CmdIds == {I64(n) : n \in ClientIds} \cup SubIds

\* the connector as connector() and the start of its threads leave it
Constructed ==
    /\ rec = [c \in Recs |-> ZeroRec]
    /\ clients = {}
    /\ dead_clients = <<>>
    /\ recycled_clients = <<>>
    /\ client_id = serverurls
    /\ nfds = 0
    /\ clients_generated = 0
    /\ dead_generated = 0
    /\ accept = FALSE
    /\ ckp_passthrough = FALSE
    /\ fdtab = [f \in FDs |-> IF f = 0 THEN Stdio ELSE NoConn]
    /\ epoll = [f \in FDs |-> NoId]
    /\ nconn = 0
    /\ sock = [c \in Recs |-> NoConn]
    /\ sender_sends = <<>>
    /\ sends = <<>>
    /\ sends_generated = 0
    /\ wire = [k \in Conns |-> <<>>]
    /\ submitted = [k \in Conns |-> <<>>]
    /\ stratifier = {}
    /\ generator = {}
    /\ rcv = [pc |-> "wait", client |-> NoRec, fd |-> 0, server |-> 0,
              tmp |-> 0, hup |-> FALSE]
    /\ snd = [pc |-> "walk", idx |-> 1]
    /\ ctl = [pc |-> "idle", client |-> NoRec, target |-> NoRec, id |-> I64(0),
              ret |-> "idle", len |-> 0]
    /\ ncmds = 0
    /\ invalidated = {}

\* no bytes and no message are followed
Idle == [pc |-> "idle"]

Init == Constructed /\ parse = Idle /\ msg = Idle

(***************************************************************************)
(* The client table.                                                       *)
(***************************************************************************)
\* HASH_FIND_I64(cdata->clients, &id, client)
HASH_FIND(id) ==
    LET found == {c \in clients : Id64(rec[c].id) = id}
    IN IF found = {} THEN NoRec ELSE CHOOSE c \in found : TRUE

\* ref_client_by_id: the client it returns and the table it leaves
ref_client_by_id(id) ==
    LET c == HASH_FIND(id)
    IN IF c # NoRec /\ ~rec[c].invalid
       THEN [client |-> c, rec |-> [rec EXCEPT ![c].ref = @ + 1]]
       ELSE [client |-> NoRec, rec |-> rec]

\* dec_instance_ref
dec_instance_ref(c) == [rec EXCEPT ![c].ref = @ - 1]

\* __recycle_client: the structure zeroed, its id -1
RecycledRec == [ZeroRec EXCEPT !.id = -1]

\* the value Close(fd) leaves in the descriptor table and in the poller
CloseFd(tab, f) == IF f \in FDs THEN [tab EXCEPT ![f] = NoConn] ELSE tab
CloseEp(ep, f) == IF f \in FDs THEN [ep EXCEPT ![f] = NoId] ELSE ep

\* what HASH_DEL(cdata->clients, client) can leave of the hash.  Deleting a
\* structure that is not in the hash is outside the macro's contract: the
\* hash is left as it is or loses every entry (or the process ends there,
\* which adds no state).
HASH_DEL(c) == IF c \in clients THEN {clients \ {c}} ELSE {clients, {}}

\* drop_client, its critical section
drop_client(c) ==
    IF ~rec[c].invalid
    THEN /\ rec' = [rec EXCEPT ![c].invalid = TRUE, ![c].ref = @ - 1]
         /\ epoll' = CloseEp(epoll, rec[c].fd)
         /\ clients' \in HASH_DEL(c)
         /\ dead_clients' = Append(dead_clients, c)
         /\ dead_generated' = dead_generated + 1
         /\ invalidated' = IF c \in clients THEN invalidated \cup {Id64(rec[c].id)}
                           ELSE invalidated
    ELSE UNCHANGED <<rec, epoll, clients, dead_clients, dead_generated, invalidated>>

\* stratifier_drop_id and generator_drop_client as invalidate_client calls them
notify_drop(c) ==
    IF ~ckp_passthrough /\ ~rec[c].passthrough
    THEN /\ stratifier' = stratifier \cup {Id64(rec[c].id)}
         /\ UNCHANGED generator
    ELSE IF ckp_passthrough
    THEN /\ generator' = generator \cup {Id64(rec[c].id)}
         /\ UNCHANGED stratifier
    ELSE UNCHANGED <<stratifier, generator>>

\* invalidate_client up to its second critical section
invalidate_begin(c) == drop_client(c) /\ notify_drop(c)

\* the dead clients invalidate_client culls: those with no reference left
Culled == {i \in 1..Len(dead_clients) : rec[dead_clients[i]].ref = 0}

RECURSIVE CloseAll(_, _, _)
CloseAll(tab, s, clear) ==
    IF s = <<>> THEN tab
    ELSE CloseAll(IF rec[Head(s)].fd \in FDs
                  THEN [tab EXCEPT ![rec[Head(s)].fd] = clear] ELSE tab,
                  Tail(s), clear)

\* s without the elements at the indexes in drop
RECURSIVE Without(_, _, _)
Without(s, drop, i) ==
    IF i > Len(s) THEN <<>>
    ELSE IF i \in drop THEN Without(s, drop, i + 1)
    ELSE <<s[i]>> \o Without(s, drop, i + 1)

\* the elements of s at the indexes in keep
Those(s, keep) == Without(s, (1..Len(s)) \ keep, 1)

\* invalidate_client, its second critical section: the lazy cull
cull_dead ==
    LET gone == Those(dead_clients, Culled)
        goneSet == {gone[i] : i \in 1..Len(gone)}
    IN /\ dead_clients' = Without(dead_clients, Culled, 1)
       /\ fdtab' = CloseAll(fdtab, gone, NoConn)
       /\ epoll' = CloseAll(epoll, gone, NoId)
       /\ rec' = [c \in Recs |-> IF c \in goneSet THEN RecycledRec ELSE rec[c]]
       /\ recycled_clients' = recycled_clients \o gone

(***************************************************************************)
(* Outbound frames and the submission list.                                *)
(***************************************************************************)
\* the field a frame does not carry
Absent == <<>>

\* the len bytes of the n-th frame queued: its number and the byte's place
FrameBytes(n, len) == [i \in 1..len |-> <<n, i>>]

\* send_client from the allocation of the sender_send on: DL_APPEND under
\* the sender lock.  kind names the text, cid its client_id member, id the
\* id send_client was called with, len is strlen(buf).
enqueue(c, kind, cid, id, len) ==
    /\ sends_generated' = sends_generated + 1
    /\ sender_sends' = Append(sender_sends,
           [client |-> c, n |-> sends_generated + 1, kind |-> kind, cid |-> cid,
            id |-> id, len |-> len, ofs |-> 0])
    /\ submitted' = IF sock[c] \in Conns
                    THEN [submitted EXCEPT
                            ![sock[c]] = @ \o FrameBytes(sends_generated + 1, len)]
                    ELSE submitted

\* the frames queued so far and those a thread is about to queue
SendsBegun ==
    sends_generated + (IF rcv.pc = "enqueue" THEN 1 ELSE 0)
                    + (IF ctl.pc \in {"enqueue", "passthrough"} THEN 1 ELSE 0)

\* the model has room for one more frame
Room == SendsBegun < MaxSends

(***************************************************************************)
(* The Receiver thread: receiver, accept_client, parse_client_msg.         *)
(***************************************************************************)
tableVars == <<rec, clients, dead_clients, recycled_clients, client_id, nfds,
               clients_generated, dead_generated, invalidated>>
sendVars == <<sender_sends, sends, sends_generated, wire, submitted>>
notifyVars == <<stratifier, generator>>
ioVars == <<fdtab, epoll, nconn, sock>>

\* the lowest descriptor accept(2) can return
FreeFds == {f \in FDs : fdtab[f] = NoConn}
LowestFree == CHOOSE f \in FreeFds : \A g \in FreeFds : f <= g

\* receiver, the top of its loop as it would be without the test of
\* cdata->accept
RecvGateOpen ==
    /\ UNCHANGED <<parse, msg>>
    /\ \/ /\ rcv.pc = "wait"
          /\ rcv' = [rcv EXCEPT !.pc = "poll"]
       \/ /\ rcv.pc = "poll"
          /\ rcv' = [rcv EXCEPT !.pc = "wait"]
    /\ UNCHANGED <<tableVars, accept, ckp_passthrough, ioVars, sendVars,
                   notifyVars, snd, ctl, ncmds>>

\* receiver, the top of its loop: the unlocked read of cdata->accept that
\* lets it into epoll_wait, and an epoll_wait that returns no event
RecvGate ==
    /\ UNCHANGED <<parse, msg>>
    /\ \/ /\ rcv.pc = "wait"
          /\ accept
          /\ rcv' = [rcv EXCEPT !.pc = "poll"]
       \/ /\ rcv.pc = "poll"
          /\ rcv' = [rcv EXCEPT !.pc = "wait"]
    /\ UNCHANGED <<tableVars, accept, ckp_passthrough, ioVars, sendVars,
                   notifyVars, snd, ctl, ncmds>>

\* accept_client up to recruit_client, for a configured maximum of max
\* clients: the capacity test and the recruiting
RecvAcceptBeginFor(max, cap) ==
    /\ UNCHANGED <<parse, msg>>
    /\ rcv.pc = "poll"
    /\ nconn < cap
    /\ recycled_clients # <<>> \/ clients_generated < MaxAccepts
    /\ \E server \in 0..(serverurls - 1) :
        IF max # 0 /\ Cardinality(clients) >= max
        THEN /\ rcv' = [rcv EXCEPT !.pc = "wait"]
             /\ UNCHANGED <<recycled_clients, clients_generated>>
        ELSE IF recycled_clients # <<>>
        THEN /\ rcv' = [rcv EXCEPT !.pc = "accept", !.client = Head(recycled_clients),
                                   !.server = server]
             /\ recycled_clients' = Tail(recycled_clients)
             /\ UNCHANGED clients_generated
        ELSE /\ rcv' = [rcv EXCEPT !.pc = "accept", !.client = clients_generated + 1,
                                   !.server = server]
             /\ clients_generated' = clients_generated + 1
             /\ UNCHANGED recycled_clients
    /\ UNCHANGED <<rec, clients, dead_clients, client_id, nfds, dead_generated,
                   invalidated, accept, ckp_passthrough, ioVars, sendVars,
                   notifyVars, snd, ctl, ncmds>>

\* accept_client up to recruit_client as it would be did the capacity test
\* let one client more in
RecvAcceptBeginOver(max) ==
    /\ UNCHANGED <<parse, msg>>
    /\ rcv.pc = "poll"
    /\ nconn < MaxAccepts
    /\ \E server \in 0..(serverurls - 1) :
        IF max # 0 /\ Cardinality(clients) > max
        THEN /\ rcv' = [rcv EXCEPT !.pc = "wait"]
             /\ UNCHANGED <<recycled_clients, clients_generated>>
        ELSE IF recycled_clients # <<>>
        THEN /\ rcv' = [rcv EXCEPT !.pc = "accept", !.client = Head(recycled_clients),
                                   !.server = server]
             /\ recycled_clients' = Tail(recycled_clients)
             /\ UNCHANGED clients_generated
        ELSE /\ rcv' = [rcv EXCEPT !.pc = "accept", !.client = clients_generated + 1,
                                   !.server = server]
             /\ clients_generated' = clients_generated + 1
             /\ UNCHANGED recycled_clients
    /\ UNCHANGED <<rec, clients, dead_clients, client_id, nfds, dead_generated,
                   invalidated, accept, ckp_passthrough, ioVars, sendVars,
                   notifyVars, snd, ctl, ncmds>>

\* accept_client up to recruit_client with MaxAccepts connections
RecvAcceptBeginAt(max) == RecvAcceptBeginFor(max, MaxAccepts)

\* accept_client with the configured ckp->maxclients
RecvAcceptBegin == RecvAcceptBeginAt(maxclients)

\* accept_client with the configured ckp->maxclients and one connection more
RecvAcceptBeginMore == RecvAcceptBeginFor(maxclients, MoreAccepts)

\* accept_client: client->server = server and accept(2) with its outcomes
RecvAccept ==
    /\ UNCHANGED <<parse, msg>>
    /\ rcv.pc = "accept"
    /\ nconn' = nconn + 1
    /\ \/ \* a connection of family AF_INET or AF_INET6
          /\ FreeFds # {}
          /\ fdtab' = [fdtab EXCEPT ![LowestFree] = nconn + 1]
          /\ sock' = [sock EXCEPT ![rcv.client] = nconn + 1]
          /\ rec' = [rec EXCEPT ![rcv.client].server = rcv.server]
          /\ rcv' = [rcv EXCEPT !.pc = "insert", !.fd = LowestFree]
          /\ UNCHANGED recycled_clients
       \/ \* EAGAIN, EWOULDBLOCK, ECONNABORTED: return 0, the structure is not
          \* given back
          /\ rec' = [rec EXCEPT ![rcv.client].server = rcv.server]
          /\ rcv' = [rcv EXCEPT !.pc = "wait", !.client = NoRec]
          /\ UNCHANGED <<fdtab, sock, recycled_clients>>
       \/ \* another family: Close(fd), recycle_client, return 0
          /\ rec' = [rec EXCEPT ![rcv.client] = RecycledRec]
          /\ recycled_clients' = Append(recycled_clients, rcv.client)
          /\ rcv' = [rcv EXCEPT !.pc = "wait", !.client = NoRec]
          /\ UNCHANGED <<fdtab, sock>>
       \/ \* any other error: recycle_client, return -1, the receiver leaves
          \* its loop
          /\ rec' = [rec EXCEPT ![rcv.client] = RecycledRec]
          /\ recycled_clients' = Append(recycled_clients, rcv.client)
          /\ rcv' = [rcv EXCEPT !.pc = "exit", !.client = NoRec]
          /\ UNCHANGED <<fdtab, sock>>
    /\ UNCHANGED <<clients, dead_clients, client_id, nfds, clients_generated,
                   dead_generated, invalidated, accept, ckp_passthrough, epoll,
                   sendVars, notifyVars, snd, ctl, ncmds>>

\* accept_client as it would be were cdata->client_id not advanced: the
\* id of an earlier client is assigned again
RecvInsertSameId ==
    /\ UNCHANGED <<parse, msg>>
    /\ rcv.pc = "insert"
    /\ rec' = [rec EXCEPT ![rcv.client].id = serverurls]
    /\ client_id' = client_id + 1
    /\ clients' = clients \cup {rcv.client}
    /\ nfds' = nfds + 1
    /\ rcv' = [rcv EXCEPT !.pc = "epoll"]
    /\ UNCHANGED <<dead_clients, recycled_clients, clients_generated,
                   dead_generated, invalidated, accept, ckp_passthrough, ioVars,
                   sendVars, notifyVars, snd, ctl, ncmds>>

\* accept_client, the critical section that assigns the id
RecvInsert ==
    /\ UNCHANGED <<parse, msg>>
    /\ rcv.pc = "insert"
    /\ rec' = [rec EXCEPT ![rcv.client].id = client_id]
    /\ client_id' = client_id + 1
    /\ clients' = clients \cup {rcv.client}
    /\ nfds' = nfds + 1
    /\ rcv' = [rcv EXCEPT !.pc = "epoll"]
    /\ UNCHANGED <<dead_clients, recycled_clients, clients_generated,
                   dead_generated, invalidated, accept, ckp_passthrough, ioVars,
                   sendVars, notifyVars, snd, ctl, ncmds>>

\* accept_client: event.data.u64 = client->id, read after the lock is
\* released.  The read races with __recycle_client, which zeroes the
\* structure and then stores -1 under the lock: of a recycled structure it
\* yields 0 or -1.
event_data(c) ==
    IF rec[c].id = -1 THEN {I64(0), MinusOne} ELSE {Id64(rec[c].id)}

\* the event data the receiver takes for a listener: event.data.u64 < serverfds
ListenerData == {I64(n) : n \in 0..(serverurls - 1)}

\* accept_client: epoll_ctl(EPOLL_CTL_ADD) and, when it succeeded, the read
\* of client->ref that __inc_instance_ref makes without the lock
RecvEpollAdd ==
    /\ UNCHANGED <<parse, msg>>
    /\ rcv.pc = "epoll"
    /\ \/ /\ fdtab[rcv.fd] # NoConn
          /\ \E data \in event_data(rcv.client) :
                epoll' = [epoll EXCEPT ![rcv.fd] = data]
          /\ rcv' = [rcv EXCEPT !.pc = "incref", !.tmp = rec[rcv.client].ref]
       \/ /\ rcv' = [rcv EXCEPT !.pc = "wait", !.client = NoRec]
          /\ UNCHANGED epoll
    /\ UNCHANGED <<tableVars, accept, ckp_passthrough, fdtab, nconn, sock,
                   sendVars, notifyVars, snd, ctl, ncmds>>

\* accept_client: the write of client->ref that __inc_instance_ref makes
\* without the lock
RecvIncRef ==
    /\ UNCHANGED <<parse, msg>>
    /\ rcv.pc = "incref"
    /\ rec' = [rec EXCEPT ![rcv.client].ref = rcv.tmp + 1]
    /\ rcv' = [rcv EXCEPT !.pc = "setfd", !.tmp = 0]
    /\ UNCHANGED <<clients, dead_clients, recycled_clients, client_id, nfds,
                   clients_generated, dead_generated, invalidated, accept,
                   ckp_passthrough, ioVars, sendVars, notifyVars, snd, ctl,
                   ncmds>>

\* accept_client: client->fd = fd
RecvSetFd ==
    /\ UNCHANGED <<parse, msg>>
    /\ rcv.pc = "setfd"
    /\ rec' = [rec EXCEPT ![rcv.client].fd = rcv.fd]
    /\ rcv' = [rcv EXCEPT !.pc = "wait", !.client = NoRec, !.fd = 0]
    /\ UNCHANGED <<clients, dead_clients, recycled_clients, client_id, nfds,
                   clients_generated, dead_generated, invalidated, accept,
                   ckp_passthrough, ioVars, sendVars, notifyVars, snd, ctl,
                   ncmds>>

\* receiver: an event of a client descriptor, resolved by ref_client_by_id
RecvEvent ==
    /\ UNCHANGED <<parse, msg>>
    /\ rcv.pc = "poll"
    /\ \E f \in FDs, hup \in BOOLEAN :
        /\ epoll[f] # NoId
        /\ epoll[f] \notin ListenerData
        /\ LET res == ref_client_by_id(epoll[f])
           IN /\ rec' = res.rec
              /\ rcv' = IF res.client = NoRec THEN [rcv EXCEPT !.pc = "wait"]
                        ELSE [rcv EXCEPT !.pc = "event", !.client = res.client,
                                         !.hup = hup]
    /\ UNCHANGED <<clients, dead_clients, recycled_clients, client_id, nfds,
                   clients_generated, dead_generated, invalidated, accept,
                   ckp_passthrough, ioVars, sendVars, notifyVars, snd, ctl, ncmds>>

\* receiver and parse_client_msg up to the first call that changes shared
\* state.  What the client sent decides the way parse_client_msg ends:
\* nothing to read or every complete record forwarded ("ok"), a record or a
\* buffer above MAX_MSGSIZE or a failed read ("drop"), a record that is no
\* JSON ("json").  After "ok" the receiver tests client->invalid again and
\* handles the hang-up events.
RecvParse ==
    /\ UNCHANGED <<parse, msg>>
    /\ rcv.pc = "event"
    /\ \E how \in {"ok", "drop"} \cup (IF Room THEN {"json"} ELSE {}) :
        IF rec[rcv.client].invalid
        THEN \* goto noparse
             /\ rcv' = [rcv EXCEPT !.pc = "unref"]
             /\ UNCHANGED <<tableVars, epoll, notifyVars>>
        ELSE IF how = "ok" /\ ~rcv.hup
        THEN /\ rcv' = [rcv EXCEPT !.pc = "unref"]
             /\ UNCHANGED <<tableVars, epoll, notifyVars>>
        ELSE IF how = "ok"
        THEN /\ invalidate_begin(rcv.client)
             /\ rcv' = [rcv EXCEPT !.pc = "cull", !.tmp = 2]
             /\ UNCHANGED <<recycled_clients, client_id, nfds, clients_generated>>
        ELSE IF how = "drop"
        THEN /\ invalidate_begin(rcv.client)
             /\ rcv' = [rcv EXCEPT !.pc = "cull", !.tmp = 1]
             /\ UNCHANGED <<recycled_clients, client_id, nfds, clients_generated>>
        ELSE \* send_client(cdata, client->id, "Invalid JSON, disconnecting\n"):
             \* a client's own id is never above 0xffffffff here
             LET id == Id64(rec[rcv.client].id)
                 res == ref_client_by_id(id)
             IN /\ rec' = res.rec
                /\ IF res.client = NoRec
                   THEN /\ stratifier' = stratifier \cup {id}
                        /\ rcv' = [rcv EXCEPT !.pc = "inval"]
                   ELSE /\ rcv' = [rcv EXCEPT !.pc = "enqueue", !.tmp = res.client]
                        /\ UNCHANGED stratifier
                /\ UNCHANGED <<clients, dead_clients, recycled_clients, client_id,
                               nfds, clients_generated, dead_generated, invalidated,
                               epoll, generator>>
    /\ UNCHANGED <<accept, ckp_passthrough, fdtab, nconn, sock, sendVars, snd,
                   ctl, ncmds>>

\* send_client called by parse_client_msg: the sender_send is queued
RecvEnqueue ==
    /\ UNCHANGED <<parse, msg>>
    /\ rcv.pc = "enqueue"
    /\ enqueue(rcv.tmp, "error", Absent, Id64(rec[rcv.client].id), FrameLen)
    /\ rcv' = [rcv EXCEPT !.pc = "inval", !.tmp = 0]
    /\ UNCHANGED <<tableVars, accept, ckp_passthrough, ioVars, sends, wire,
                   notifyVars, snd, ctl, ncmds>>

\* invalidate_client called by parse_client_msg after the error line
RecvInvalidate ==
    /\ UNCHANGED <<parse, msg>>
    /\ rcv.pc = "inval"
    /\ invalidate_begin(rcv.client)
    /\ rcv' = [rcv EXCEPT !.pc = "cull", !.tmp = 1]
    /\ UNCHANGED <<recycled_clients, client_id, nfds, clients_generated, accept,
                   ckp_passthrough, fdtab, nconn, sock, sendVars, snd, ctl,
                   ncmds>>

\* invalidate_client called by the receiver: the cull.  tmp tells whether
\* parse_client_msg (1) or the receiver's event handling (2) called it.
RecvCull ==
    /\ UNCHANGED <<parse, msg>>
    /\ rcv.pc = "cull"
    /\ cull_dead
    /\ rcv' = [rcv EXCEPT !.pc = IF rcv.tmp = 1 THEN "parsed" ELSE "unref", !.tmp = 0]
    /\ UNCHANGED <<clients, client_id, nfds, clients_generated, dead_generated,
                   invalidated, accept, ckp_passthrough, nconn, sock, sendVars,
                   notifyVars, snd, ctl, ncmds>>

\* receiver after a parse_client_msg that invalidated the client: the
\* hang-up events invalidate it again unless client->invalid is read as set
RecvHangup ==
    /\ UNCHANGED <<parse, msg>>
    /\ rcv.pc = "parsed"
    /\ IF ~rec[rcv.client].invalid /\ rcv.hup
       THEN /\ invalidate_begin(rcv.client)
            /\ rcv' = [rcv EXCEPT !.pc = "cull", !.tmp = 2]
       ELSE /\ rcv' = [rcv EXCEPT !.pc = "unref"]
            /\ UNCHANGED <<rec, epoll, clients, dead_clients, dead_generated,
                           invalidated, notifyVars>>
    /\ UNCHANGED <<recycled_clients, client_id, nfds, clients_generated, accept,
                   ckp_passthrough, fdtab, nconn, sock, sendVars, snd, ctl,
                   ncmds>>

\* receiver, noparse: dec_instance_ref
RecvUnref ==
    /\ UNCHANGED <<parse, msg>>
    /\ rcv.pc = "unref"
    /\ rec' = dec_instance_ref(rcv.client)
    /\ rcv' = [rcv EXCEPT !.pc = "wait", !.client = NoRec, !.hup = FALSE]
    /\ UNCHANGED <<clients, dead_clients, recycled_clients, client_id, nfds,
                   clients_generated, dead_generated, invalidated, accept,
                   ckp_passthrough, ioVars, sendVars, notifyVars, snd, ctl,
                   ncmds>>

Receiver ==
    \/ RecvGate \/ RecvAcceptBegin \/ RecvAccept \/ RecvInsert \/ RecvEpollAdd
    \/ RecvIncRef \/ RecvSetFd \/ RecvEvent \/ RecvParse \/ RecvEnqueue
    \/ RecvInvalidate \/ RecvCull \/ RecvHangup \/ RecvUnref

(***************************************************************************)
(* The Sender thread: sender, send_sender_send, clear_sender_send.         *)
(***************************************************************************)
\* the process runs until the receiver ends it (childsighandler)
Running == rcv.pc # "exit"

\* the sender_send the walk of the sender's list is at
Sending == sends[snd.idx]

\* write(2) of ret bytes of the sender_send at index i: the bytes reach the
\* connection open at the client's descriptor
written(i, ret) ==
    LET e == sends[i]
        k == fdtab[rec[e.client].fd]
    IN IF k \in Conns
       THEN [wire EXCEPT ![k] = @ \o [j \in 1..ret |-> <<e.n, e.ofs + j>>]]
       ELSE wire

\* send_sender_send: the test of client->invalid (when the walk reaches the
\* sender_send) and one write(2) of the loop
SenderSend ==
    /\ UNCHANGED <<parse, msg>>
    /\ Running
    /\ snd.pc \in {"walk", "write"}
    /\ snd.idx <= Len(sends)
    /\ IF snd.pc = "walk" /\ rec[Sending.client].invalid
       THEN /\ snd' = [snd EXCEPT !.pc = "clear"]
            /\ UNCHANGED <<rec, epoll, clients, dead_clients, dead_generated,
                           invalidated, notifyVars, sends, wire>>
       ELSE \/ \* ret bytes are written
               /\ rec[Sending.client].fd \in FDs
               /\ fdtab[rec[Sending.client].fd] # NoConn
               /\ \E ret \in 1..Sending.len :
                   /\ wire' = written(snd.idx, ret)
                   /\ sends' = [sends EXCEPT ![snd.idx].ofs = @ + ret,
                                             ![snd.idx].len = @ - ret]
                   /\ snd' = [snd EXCEPT !.pc = IF ret = Sending.len THEN "clear"
                                                ELSE "write"]
               /\ UNCHANGED <<rec, epoll, clients, dead_clients, dead_generated,
                              invalidated, notifyVars>>
            \/ \* EAGAIN, EWOULDBLOCK or 0: return false, the walk goes on
               /\ rec[Sending.client].fd \in FDs
               /\ fdtab[rec[Sending.client].fd] # NoConn
               /\ snd' = [snd EXCEPT !.pc = "walk", !.idx = @ + 1]
               /\ UNCHANGED <<rec, epoll, clients, dead_clients, dead_generated,
                              invalidated, notifyVars, sends, wire>>
            \/ \* any other error: invalidate_client, return true
               /\ invalidate_begin(Sending.client)
               /\ snd' = [snd EXCEPT !.pc = "cull"]
               /\ UNCHANGED <<sends, wire>>
    /\ UNCHANGED <<recycled_clients, client_id, nfds, clients_generated, accept,
                   ckp_passthrough, fdtab, nconn, sock, sender_sends,
                   sends_generated, submitted, rcv, ctl, ncmds>>

\* invalidate_client called by send_sender_send: the cull
SenderCull ==
    /\ UNCHANGED <<parse, msg>>
    /\ Running
    /\ snd.pc = "cull"
    /\ cull_dead
    /\ snd' = [snd EXCEPT !.pc = "clear"]
    /\ UNCHANGED <<clients, client_id, nfds, clients_generated, dead_generated,
                   invalidated, accept, ckp_passthrough, nconn, sock, sendVars,
                   notifyVars, rcv, ctl, ncmds>>

\* sender: DL_DELETE and clear_sender_send
SenderClear ==
    /\ UNCHANGED <<parse, msg>>
    /\ Running
    /\ snd.pc = "clear"
    /\ rec' = dec_instance_ref(Sending.client)
    /\ sends' = Without(sends, {snd.idx}, 1)
    /\ snd' = [snd EXCEPT !.pc = "walk"]
    /\ UNCHANGED <<clients, dead_clients, recycled_clients, client_id, nfds,
                   clients_generated, dead_generated, invalidated, accept,
                   ckp_passthrough, ioVars, sender_sends, sends_generated, wire,
                   submitted, notifyVars, rcv, ctl, ncmds>>

\* sender, after the walk: under the sender lock, DL_CONCAT of the
\* submission list onto the sender's list
SenderSplice ==
    /\ UNCHANGED <<parse, msg>>
    /\ Running
    /\ snd.pc = "walk"
    /\ snd.idx > Len(sends)
    /\ sends' = sends \o sender_sends
    /\ sender_sends' = <<>>
    /\ snd' = [snd EXCEPT !.idx = 1]
    /\ UNCHANGED <<tableVars, accept, ckp_passthrough, ioVars, sends_generated,
                   wire, submitted, notifyVars, rcv, ctl, ncmds>>

Sender == SenderSend \/ SenderCull \/ SenderClear \/ SenderSplice

(***************************************************************************)
(* The Control loop: connector_loop, process_client_msg, send_client,      *)
(* passthrough_client.                                                     *)
(***************************************************************************)
\* the client_id member process_client_msg leaves in the message
egress_client_id(id) == IF GtU32(id) THEN And32(id) ELSE Absent

\* the id send_client resolves first: the passthrough's for a subclient
send_target(id) == IF GtU32(id) THEN Sar32(id) ELSE id

\* connector_loop, "accept" and "reject"
CtlAccept ==
    /\ UNCHANGED <<parse, msg>>
    /\ Running
    /\ ctl.pc = "idle"
    /\ ncmds < MaxCmds
    /\ ncmds' = ncmds + 1
    /\ accept' \in BOOLEAN
    /\ accept' # accept
    /\ UNCHANGED <<tableVars, ckp_passthrough, ioVars, sendVars, notifyVars, rcv,
                   snd, ctl>>

\* connector_loop, a JSON message of one of the lengths lens:
\* process_client_msg and send_client up to its first ref_client_by_id,
\* while fewer than cap frames were begun
CtlJsonOf(cap, lens) ==
    /\ UNCHANGED <<parse, msg>>
    /\ Running
    /\ ctl.pc = "idle"
    /\ ncmds < MaxCmds
    /\ SendsBegun < cap
    /\ ncmds' = ncmds + 1
    /\ \E id \in CmdIds, len \in lens :
        LET res == ref_client_by_id(send_target(id))
        IN /\ rec' = res.rec
           /\ IF res.client # NoRec
              THEN /\ ctl' = [ctl EXCEPT !.pc = "enqueue", !.target = res.client,
                                         !.id = id, !.len = len]
                   /\ UNCHANGED stratifier
              ELSE IF GtU32(id)
              THEN /\ ctl' = [ctl EXCEPT !.pc = "subclient", !.id = id]
                   /\ UNCHANGED stratifier
              ELSE /\ stratifier' = stratifier \cup {id}
                   /\ UNCHANGED ctl
    /\ UNCHANGED <<clients, dead_clients, recycled_clients, client_id, nfds,
                   clients_generated, dead_generated, invalidated, accept,
                   ckp_passthrough, ioVars, sendVars, generator, rcv, snd>>

CtlJson == CtlJsonOf(MaxSends, {FrameLen})

\* send_client, the passthrough was not found: "now see if the subclient
\* exists"
CtlSubclient ==
    /\ UNCHANGED <<parse, msg>>
    /\ Running
    /\ ctl.pc = "subclient"
    /\ LET res == ref_client_by_id(And32(ctl.id))
       IN /\ rec' = res.rec
          /\ IF res.client # NoRec
             THEN /\ ctl' = [ctl EXCEPT !.pc = "inval", !.client = res.client]
                  /\ UNCHANGED stratifier
             ELSE /\ stratifier' = stratifier \cup {ctl.id}
                  /\ ctl' = [ctl EXCEPT !.pc = "idle", !.id = I64(0)]
    /\ UNCHANGED <<clients, dead_clients, recycled_clients, client_id, nfds,
                   clients_generated, dead_generated, invalidated, accept,
                   ckp_passthrough, ioVars, sendVars, generator, rcv, snd, ncmds>>

\* send_client: the sender_send is queued.  A JSON message carries the
\* client_id process_client_msg left in it, the passthrough reply none.
CtlEnqueue ==
    /\ UNCHANGED <<parse, msg>>
    /\ Running
    /\ ctl.pc = "enqueue"
    /\ IF ctl.ret = "idle"
       THEN enqueue(ctl.target, "json", egress_client_id(ctl.id), ctl.id, ctl.len)
       ELSE enqueue(ctl.target, "result", Absent, Id64(rec[ctl.client].id), FrameLen)
    /\ ctl' = [ctl EXCEPT !.pc = ctl.ret, !.target = NoRec, !.ret = "idle",
                          !.id = I64(0), !.len = 0,
                          !.client = IF ctl.ret = "idle" THEN NoRec ELSE @]
    /\ UNCHANGED <<tableVars, accept, ckp_passthrough, ioVars, sends, wire,
                   notifyVars, rcv, snd, ncmds>>

\* connector_loop, "dropclient=<id>": up to ref_client_by_id
CtlDropclient ==
    /\ UNCHANGED <<parse, msg>>
    /\ Running
    /\ ctl.pc = "idle"
    /\ ncmds < MaxCmds
    /\ ncmds' = ncmds + 1
    /\ \E id \in CmdIds :
        IF GtU32(id)
        THEN \* a passthrough subclient: goto retry
             UNCHANGED <<rec, ctl>>
        ELSE LET res == ref_client_by_id(id)
             IN /\ rec' = res.rec
                /\ ctl' = IF res.client = NoRec THEN ctl
                          ELSE [ctl EXCEPT !.pc = "inval", !.client = res.client]
    /\ UNCHANGED <<clients, dead_clients, recycled_clients, client_id, nfds,
                   clients_generated, dead_generated, invalidated, accept,
                   ckp_passthrough, ioVars, sendVars, notifyVars, rcv, snd>>

\* invalidate_client called by the control loop: drop_client and the notice
CtlInvalidate ==
    /\ UNCHANGED <<parse, msg>>
    /\ Running
    /\ ctl.pc = "inval"
    /\ invalidate_begin(ctl.client)
    /\ ctl' = [ctl EXCEPT !.pc = "cull"]
    /\ UNCHANGED <<recycled_clients, client_id, nfds, clients_generated, accept,
                   ckp_passthrough, fdtab, nconn, sock, sendVars, rcv, snd,
                   ncmds>>

\* invalidate_client called by the control loop: the cull
CtlCull ==
    /\ UNCHANGED <<parse, msg>>
    /\ Running
    /\ ctl.pc = "cull"
    /\ cull_dead
    /\ ctl' = [ctl EXCEPT !.pc = "unref"]
    /\ UNCHANGED <<clients, client_id, nfds, clients_generated, dead_generated,
                   invalidated, accept, ckp_passthrough, nconn, sock, sendVars,
                   notifyVars, rcv, snd, ncmds>>

\* dec_instance_ref called by the control loop or by send_client
CtlUnref ==
    /\ UNCHANGED <<parse, msg>>
    /\ Running
    /\ ctl.pc = "unref"
    /\ rec' = dec_instance_ref(ctl.client)
    /\ ctl' = [ctl EXCEPT !.pc = "idle", !.client = NoRec, !.id = I64(0)]
    /\ UNCHANGED <<clients, dead_clients, recycled_clients, client_id, nfds,
                   clients_generated, dead_generated, invalidated, accept,
                   ckp_passthrough, ioVars, sendVars, notifyVars, rcv, snd,
                   ncmds>>

\* connector_loop, "passthrough=<id>": up to ref_client_by_id
CtlPassthrough ==
    /\ UNCHANGED <<parse, msg>>
    /\ Running
    /\ ctl.pc = "idle"
    /\ ncmds < MaxCmds
    /\ Room
    /\ ncmds' = ncmds + 1
    /\ \E id \in CmdIds :
        LET res == ref_client_by_id(id)
        IN /\ rec' = res.rec
           /\ ctl' = IF res.client = NoRec THEN ctl
                     ELSE [ctl EXCEPT !.pc = "passthrough", !.client = res.client]
    /\ UNCHANGED <<clients, dead_clients, recycled_clients, client_id, nfds,
                   clients_generated, dead_generated, invalidated, accept,
                   ckp_passthrough, ioVars, sendVars, notifyVars, rcv, snd>>

\* passthrough_client: client->passthrough = true, then send_client with
\* client->id up to its ref_client_by_id
CtlPassthroughClient ==
    /\ UNCHANGED <<parse, msg>>
    /\ Running
    /\ ctl.pc = "passthrough"
    /\ LET id == Id64(rec[ctl.client].id)
           res == ref_client_by_id(id)
       IN /\ rec' = [res.rec EXCEPT ![ctl.client].passthrough = TRUE]
          /\ IF res.client # NoRec
             THEN /\ ctl' = [ctl EXCEPT !.pc = "enqueue", !.ret = "unref",
                                        !.target = res.client]
                  /\ UNCHANGED stratifier
             ELSE /\ stratifier' = stratifier \cup {id}
                  /\ ctl' = [ctl EXCEPT !.pc = "unref"]
    /\ UNCHANGED <<clients, dead_clients, recycled_clients, client_id, nfds,
                   clients_generated, dead_generated, invalidated, accept,
                   ckp_passthrough, ioVars, sendVars, generator, rcv, snd, ncmds>>

Control ==
    \/ CtlAccept \/ CtlJson \/ CtlSubclient \/ CtlEnqueue \/ CtlDropclient
    \/ CtlInvalidate \/ CtlCull \/ CtlUnref \/ CtlPassthrough
    \/ CtlPassthroughClient

\* once the receiver has left its loop, childsighandler ends the process
Next == Receiver \/ Sender \/ Control

Spec == Init /\ [][Next]_vars

(***************************************************************************)
(* The receiver and the control loop's accept, reject and dropclient with  *)
(* a maximum of clients below the number of connections the listener       *)
(* hands over.                                                             *)
(***************************************************************************)
\* a configured ckp->maxclients that the connections reach
LowMaxClients == 1

NextCap ==
    \/ RecvGate \/ RecvAcceptBeginAt(LowMaxClients) \/ RecvAccept \/ RecvInsert
    \/ RecvEpollAdd \/ RecvIncRef \/ RecvSetFd \/ RecvEvent \/ RecvParse
    \/ RecvEnqueue \/ RecvInvalidate \/ RecvCull \/ RecvHangup \/ RecvUnref
    \/ CtlAccept \/ CtlDropclient \/ CtlInvalidate \/ CtlCull \/ CtlUnref

SpecCap == Init /\ [][NextCap]_vars

(***************************************************************************)
(* The sender on its own: one client is connected, no other connects and   *)
(* the client sends nothing; the control loop is handed JSON messages of   *)
(* one byte and more.                                                      *)
(***************************************************************************)
\* the state Spec is in after "accept" and one accept_client, the client's
\* structure being r, the process in passthrough mode or not (mode) and the
\* receiver at rc
ConnectedWith(r, mode, rc) ==
    /\ rec = [c \in Recs |-> IF c = 1 THEN r ELSE ZeroRec]
    /\ clients = {1}
    /\ dead_clients = <<>>
    /\ recycled_clients = <<>>
    /\ client_id = serverurls + 1
    /\ nfds = 1
    /\ clients_generated = 1
    /\ dead_generated = 0
    /\ accept = TRUE
    /\ ckp_passthrough = mode
    /\ fdtab = [f \in FDs |-> IF f = 0 THEN Stdio ELSE IF f = 1 THEN 1 ELSE NoConn]
    /\ epoll = [f \in FDs |-> IF f = 1 THEN I64(serverurls) ELSE NoId]
    /\ nconn = 1
    /\ sock = [c \in Recs |-> IF c = 1 THEN 1 ELSE NoConn]
    /\ sender_sends = <<>>
    /\ sends = <<>>
    /\ sends_generated = 0
    /\ wire = [k \in Conns |-> <<>>]
    /\ submitted = [k \in Conns |-> <<>>]
    /\ stratifier = {}
    /\ generator = {}
    /\ rcv = rc
    /\ snd = [pc |-> "walk", idx |-> 1]
    /\ ctl = [pc |-> "idle", client |-> NoRec, target |-> NoRec, id |-> I64(0),
              ret |-> "idle", len |-> 0]
    /\ ncmds = 1
    /\ invalidated = {}

\* the first client as accept_client leaves it
FirstClient == [ZeroRec EXCEPT !.id = serverurls, !.fd = 1, !.ref = 1]

\* the receiver at the top of its loop
Waiting == [pc |-> "wait", client |-> NoRec, fd |-> 0, server |-> 0,
            tmp |-> 0, hup |-> FALSE]

\* the state Spec is in after "accept" and one accept_client
Connected == ConnectedWith(FirstClient, FALSE, Waiting)

InitSend == Connected /\ parse = Idle /\ msg = Idle

\* JSON messages of FrameLen bytes and of one more, one frame more than Spec
CtlJsonLong == CtlJsonOf(MaxSends + 1, FrameLen..(FrameLen + 1))

NextSend ==
    \/ CtlJsonLong \/ CtlSubclient \/ CtlEnqueue
    \/ SenderSend \/ SenderCull \/ SenderClear \/ SenderSplice

SpecSend == InitSend /\ [][NextSend]_vars

(***************************************************************************)
(* parse_client_msg byte by byte: the connected client sends a stream of   *)
(* bytes, read(2) hands them over in pieces, the records found in          *)
(* client->buf are forwarded.                                              *)
(***************************************************************************)
\* the bytes: two that JSON texts are made of, one that no JSON text has,
\* the line feed
JsonBytes == {"a", "b"}
LF == "\n"
Bytes == JsonBytes \cup {"x", LF}

\* the streams of at most MaxStream bytes
Streams == UNION {[1..n -> Bytes] : n \in 0..MaxStream}

\* memchr(client->buf, '\n', client->bufofs): the place of the first line
\* feed, 0 when there is none
memchr(b) ==
    IF \E i \in 1..Len(b) : b[i] = LF
    THEN CHOOSE i \in 1..Len(b) : b[i] = LF /\ \A j \in 1..(i - 1) : b[j] # LF
    ELSE 0

\* json_loads(msg, 0, NULL) succeeds: the line holds a JSON text
json_loads(m) ==
    /\ Len(m) > 1
    /\ m[Len(m)] = LF
    /\ \A i \in 1..(Len(m) - 1) : m[i] \in JsonBytes

\* what is forwarded of a line: its JSON text
Payload(m) == SubSeq(m, 1, Len(m) - 1)

\* memmove as it would be were the bytes behind the line not kept
memmove_none(b, buflen) == <<>>

\* memmove(client->buf, client->buf + buflen, client->bufofs): what is left
\* of the buffer behind the first buflen bytes
memmove(b, buflen) == SubSeq(b, buflen + 1, Len(b))

\* the smaller of two numbers
Min(a, b) == IF a < b THEN a ELSE b

\* parse_client_msg, retry: the test of bufofs and one read(2) that returns
\* bytes or fails.  A read that returns EAGAIN or 0 ends the call and the
\* next event starts it again here.
ParseRead ==
    /\ parse.pc = "retry"
    /\ IF Len(parse.buf) > MAX_MSGSIZE
       THEN parse' = [parse EXCEPT !.pc = "invalid", !.why = "overload"]
       ELSE \/ \E ret \in 1..Min(Len(parse.unread), PAGESIZE - Len(parse.buf)) :
                 parse' = [parse EXCEPT
                             !.pc = "reparse",
                             !.buf = @ \o SubSeq(parse.unread, 1, ret),
                             !.unread = SubSeq(@, ret + 1, Len(@))]
            \/ parse' = [parse EXCEPT !.pc = "invalid", !.why = "recv"]
    /\ UNCHANGED <<tableVars, accept, ckp_passthrough, ioVars, sendVars,
                   notifyVars, rcv, snd, ctl, ncmds, msg>>

\* parse_client_msg, reparse, as it would be without its test of the
\* record's length
ParseLineLax ==
    /\ parse.pc = "reparse"
    /\ LET buflen == memchr(parse.buf)
           line == SubSeq(parse.buf, 1, buflen)
           left == memmove(parse.buf, buflen)
       IN IF buflen = 0
          THEN parse' = [parse EXCEPT !.pc = "retry"]
          ELSE IF ~json_loads(line)
          THEN parse' = [parse EXCEPT !.pc = "invalid", !.why = "json", !.buf = left]
          ELSE parse' = [parse EXCEPT
                           !.pc = IF left # <<>> THEN "reparse" ELSE "retry",
                           !.buf = left,
                           !.out = Append(@, Payload(line))]
    /\ UNCHANGED <<tableVars, accept, ckp_passthrough, ioVars, sendVars,
                   notifyVars, rcv, snd, ctl, ncmds, msg>>

\* parse_client_msg, reparse: the first line of the buffer is taken out and
\* forwarded, or the client is invalidated
ParseLine ==
    /\ parse.pc = "reparse"
    /\ LET buflen == memchr(parse.buf)
           line == SubSeq(parse.buf, 1, buflen)
           left == memmove(parse.buf, buflen)
       IN IF buflen = 0
          THEN parse' = [parse EXCEPT !.pc = "retry"]
          ELSE IF buflen > MAX_MSGSIZE
          THEN parse' = [parse EXCEPT !.pc = "invalid", !.why = "oversize"]
          ELSE IF ~json_loads(line)
          THEN parse' = [parse EXCEPT !.pc = "invalid", !.why = "json", !.buf = left]
          ELSE parse' = [parse EXCEPT
                           !.pc = IF left # <<>> THEN "reparse" ELSE "retry",
                           !.buf = left,
                           !.out = Append(@, Payload(line))]
    /\ UNCHANGED <<tableVars, accept, ckp_passthrough, ioVars, sendVars,
                   notifyVars, rcv, snd, ctl, ncmds, msg>>

\* the client is connected and is about to send any of the streams
InitParse ==
    /\ Connected
    /\ msg = Idle
    /\ parse \in {[pc |-> "retry", sent |-> s, unread |-> s, buf |-> <<>>,
                   out |-> <<>>, why |-> "none"] : s \in Streams}

NextParse == ParseRead \/ ParseLine

SpecParse == InitParse /\ [][NextParse]_vars

(***************************************************************************)
(* parse_client_msg with what it does to a client it gives up: the error   *)
(* line of a record that is no JSON, invalidate_client.  The receiver got  *)
(* an event of the connected client and holds the handle of its            *)
(* ref_client_by_id.                                                       *)
(***************************************************************************)
\* the receiver about to call parse_client_msg on the first client
Handling == [Waiting EXCEPT !.pc = "event", !.client = 1]

\* parse_client_msg on a record that is no JSON: send_client with the error
\* line, which finds the client and queues the line
ParseSendError ==
    /\ parse.pc = "invalid"
    /\ parse.why = "json"
    /\ sends_generated = 0
    /\ LET id == Id64(rec[rcv.client].id)
           res == ref_client_by_id(id)
       IN /\ rec' = res.rec
          /\ IF res.client = NoRec
             THEN /\ stratifier' = stratifier \cup {id}
                  /\ UNCHANGED <<sender_sends, sends_generated, submitted>>
             ELSE /\ enqueue(res.client, "error", Absent, id, FrameLen)
                  /\ UNCHANGED stratifier
    /\ UNCHANGED <<clients, dead_clients, recycled_clients, client_id, nfds,
                   clients_generated, dead_generated, invalidated, accept,
                   ckp_passthrough, ioVars, sends, wire, generator, rcv, snd, ctl,
                   ncmds, parse, msg>>

\* parse_client_msg gives the client up: invalidate_client, drop_client and
\* the notice
ParseInvalidate ==
    /\ parse.pc = "invalid"
    /\ parse.why = "json" => sends_generated > 0
    /\ invalidate_begin(rcv.client)
    /\ parse' = [parse EXCEPT !.pc = "cull"]
    /\ UNCHANGED <<recycled_clients, client_id, nfds, clients_generated, accept,
                   ckp_passthrough, fdtab, nconn, sock, sendVars, rcv, snd, ctl,
                   ncmds, msg>>

\* invalidate_client, the cull, after which parse_client_msg returns
ParseCull ==
    /\ parse.pc = "cull"
    /\ cull_dead
    /\ parse' = [parse EXCEPT !.pc = "dropped"]
    /\ UNCHANGED <<clients, client_id, nfds, clients_generated, dead_generated,
                   invalidated, accept, ckp_passthrough, nconn, sock, sendVars,
                   notifyVars, rcv, snd, ctl, ncmds, msg>>

\* the client is connected, direct, the receiver holds its handle, and it
\* is about to send any of the streams
InitDrop ==
    /\ ConnectedWith([FirstClient EXCEPT !.ref = 2], FALSE, Handling)
    /\ msg = Idle
    /\ parse \in {[pc |-> "retry", sent |-> s, unread |-> s, buf |-> <<>>,
                   out |-> <<>>, why |-> "none"] : s \in Streams}

NextDrop == ParseRead \/ ParseLine \/ ParseSendError \/ ParseInvalidate \/ ParseCull

SpecDrop == InitDrop /\ [][NextDrop]_vars

(***************************************************************************)
(* One message on its way: a client sends a JSON object, parse_client_msg  *)
(* decorates and forwards it, the consumer answers under the client_id it  *)
(* was given and process_client_msg and send_client route the answer.      *)
(***************************************************************************)
\* JSON values: an integer (json_int_t, 64 bits), a string, no value
JInt(x) == [t |-> "int", v |-> x]
JStr(x) == [t |-> "str", v |-> <<x>>]
JNone == [t |-> "none", v |-> <<>>]

\* json_integer_value: 0 for what is no integer
json_integer_value(j) == IF j.t = "int" THEN j.v ELSE I64(0)

\* json_object_set_new_nocheck as it would be did it keep a member that is
\* there already
json_object_set_kept(val, key, j) ==
    IF val[key] = JNone THEN [val EXCEPT ![key] = j] ELSE val

\* json_object_del and json_object_set_new_nocheck on the members followed
json_object_del(val, key) == [val EXCEPT ![key] = JNone]
json_object_set_new_nocheck(val, key, j) == [val EXCEPT ![key] = j]

\* client ids at the edges of 32 bits: 1, 2, 2^16 - 1, 2^16, 2^31 - 1, 2^31,
\* 2^32 - 1
EdgeIds ==
    {I64Of(0, 0, 0, 1), I64Of(0, 0, 0, 2), I64Of(0, 0, 0, Limb - 1),
     I64Of(0, 0, 1, 0), I64Of(0, 0, HalfLimb - 1, Limb - 1),
     I64Of(0, 0, HalfLimb, 0), I64Of(0, 0, Limb - 1, Limb - 1)}

\* the client_id members a client sends: none, a string, and the integers
\* 0, 1, 2^31, 2^32 - 1, 2^32 and -1
SentIds ==
    {JNone, JStr("id")} \cup
    {JInt(x) : x \in {I64Of(0, 0, 0, 0), I64Of(0, 0, 0, 1), I64Of(0, 0, HalfLimb, 0),
                      I64Of(0, 0, Limb - 1, Limb - 1), I64Of(0, 1, 0, 0), MinusOne}}

\* parse_client_msg, the members it sets in a message of client c
decorate(val, c) ==
    LET passthrough_id == json_integer_value(val.client_id)
        own == IF c.passthrough
               THEN json_object_set_new_nocheck(
                        json_object_del(val, "client_id"), "client_id",
                        JInt(Or64(Shl32(c.id), passthrough_id)))
               ELSE json_object_set_new_nocheck(
                        json_object_set_new_nocheck(val, "client_id", JInt(c.id)),
                        "address", JStr(c.address_name))
    IN json_object_set_new_nocheck(own, "server", JInt(I64(c.server)))

\* parse_client_msg: the message is decorated and sent to the consumer
MsgForward ==
    /\ msg.pc = "sent"
    /\ msg' = [msg EXCEPT !.pc = "forwarded", !.frame = decorate(msg.val, msg.client)]
    /\ UNCHANGED <<tableVars, accept, ckp_passthrough, ioVars, sendVars,
                   notifyVars, rcv, snd, ctl, ncmds, parse>>

\* process_client_msg and send_client on the consumer's answer, which names
\* the client_id of the frame: the id whose client is looked up and the
\* client_id member left in the answer
MsgReply ==
    /\ msg.pc = "forwarded"
    /\ LET id == json_integer_value(msg.frame.client_id)
       IN msg' = [msg EXCEPT !.pc = "routed", !.target = send_target(id),
                             !.cid = egress_client_id(id)]
    /\ UNCHANGED <<tableVars, accept, ckp_passthrough, ioVars, sendVars,
                   notifyVars, rcv, snd, ctl, ncmds, parse>>

\* a client of any of the edge ids, passthrough or not, sends an object
InitMsg ==
    /\ Constructed
    /\ parse = Idle
    /\ msg \in {[pc |-> "sent",
                 client |-> [id |-> id, passthrough |-> pt, server |-> 0,
                             address_name |-> "peer"],
                 val |-> [client_id |-> cid, address |-> adr, server |-> srv],
                 frame |-> [client_id |-> JNone, address |-> JNone, server |-> JNone],
                 target |-> I64(0), cid |-> Absent] :
                id \in EdgeIds, pt \in BOOLEAN, cid \in SentIds,
                adr \in {JNone, JStr("sent")}, srv \in {JNone, JInt(I64(7))}}

NextMsg == MsgForward \/ MsgReply

SpecMsg == InitMsg /\ [][NextMsg]_vars

(***************************************************************************)
(* What the claims speak of.                                               *)
(***************************************************************************)
\* c is on the list s
OnList(c, s) == \E i \in 1..Len(s) : s[i] = c

\* the pending sends, on the submission list and on the sender's list
PendingSends == sender_sends \o sends

\* the pending sends that target c
PendingOn(c) == Cardinality({i \in 1..Len(PendingSends) : PendingSends[i].client = c})

\* the handles on c that a thread got from ref_client_by_id and has not
\* released or handed to a pending send
HandlesOn(c) ==
      (IF rcv.pc \in {"event", "enqueue", "inval", "cull", "parsed", "unref"}
          /\ rcv.client = c THEN 1 ELSE 0)
    + (IF rcv.pc = "enqueue" /\ rcv.tmp = c THEN 1 ELSE 0)
    + (IF ctl.pc \in {"inval", "cull", "unref", "passthrough"} /\ ctl.client = c
       THEN 1 ELSE 0)
    + (IF ctl.pc = "enqueue" /\ ctl.ret = "unref" /\ ctl.client = c THEN 1 ELSE 0)
    + (IF ctl.pc = "enqueue" /\ ctl.target = c THEN 1 ELSE 0)

\* the socket accepted for c is still open
SocketOpen(c) == sock[c] # NoConn /\ \E f \in FDs : fdtab[f] = sock[c]

\* the socket accepted for c is registered with the event poller
Registered(c) ==
    sock[c] # NoConn /\ \E f \in FDs : fdtab[f] = sock[c] /\ epoll[f] # NoId

\* the receiver is inside accept_client for c
Accepting(c) ==
    rcv.client = c /\ rcv.pc \in {"accept", "insert", "epoll", "incref", "setfd"}

\* a is a prefix of b
IsPrefix(a, b) == Len(a) <= Len(b) /\ \A i \in 1..Len(a) : a[i] = b[i]

\* id is the id of a structure in the hash
Live(id) == \E c \in clients : Id64(rec[c].id) = id

\* the number of lists c is on, the hash counted as one
ListsOf(c) ==
      (IF c \in clients THEN 1 ELSE 0)
    + (IF OnList(c, dead_clients) THEN 1 ELSE 0)
    + (IF OnList(c, recycled_clients) THEN 1 ELSE 0)

(***************************************************************************)
(* The claims.                                                             *)
(***************************************************************************)
\* C1: FD reuse safety.  While a thread holds a handle on a record that it
\* got from ref_client_by_id and has not released, or a pending send on the
\* submission list or on the sender's list targets the record, the socket
\* accepted for the record is open and the record is neither zeroed nor on
\* the recycled list.
FdReuseSafety ==
    \A c \in Recs :
        HandlesOn(c) + PendingOn(c) > 0 =>
            /\ sock[c] # NoConn => SocketOpen(c)
            /\ rec[c] # RecycledRec
            /\ ~OnList(c, recycled_clients)

\* C2: outbound ordering.  The bytes written to a connection are at every
\* moment a prefix of the bytes of the frames send_client queued for it, in
\* the order of the calls.
OutboundOrdering == \A k \in Conns : IsPrefix(wire[k], submitted[k])

\* C4: once invalidate_client has run on a live client, ref_client_by_id of
\* that client's id returns none, whatever became of the structure since.
InvalidatedStaysGone ==
    \A id \in invalidated : ref_client_by_id(id).client = NoRec

\* C4, its case: a client was invalidated, and the one structure allocated
\* so far is live again under the second id
InvalidatedAndReused ==
    /\ invalidated # {}
    /\ clients_generated = 1
    /\ client_id = serverurls + 2
    /\ clients = {1}
    /\ ~rec[1].invalid

\* C5: the lookup contract.  For an id in the hash ref_client_by_id returns
\* the structure of that id, not invalid, and adds one to its ref and to no
\* other; for an id not in the hash it returns none and changes no ref.
LookupContract ==
    \A id \in CmdIds \cup {MinusOne, I64(0)} :
        LET res == ref_client_by_id(id)
        IN IF Live(id)
           THEN /\ res.client \in clients
                /\ Id64(rec[res.client].id) = id
                /\ ~rec[res.client].invalid
                /\ res.rec = [rec EXCEPT ![res.client].ref = @ + 1]
           ELSE /\ res.client = NoRec
                /\ res.rec = rec

\* C6: every structure is in at most one of the hash, the dead list and the
\* recycled list; in the hash it is not invalid, on the dead list it is.
OneListEach ==
    \A c \in Recs :
        /\ ListsOf(c) <= 1
        /\ c \in clients => ~rec[c].invalid
        /\ OnList(c, dead_clients) => rec[c].invalid

\* C7: reference accounting.  Outside accept_client's own steps on it, the
\* ref of a structure is the number of handles held on it plus the number
\* of pending sends that target it plus one if its socket is registered
\* with the poller, and it is never negative.
RefAccounting ==
    \A c \in Recs :
        ~Accepting(c) =>
            /\ rec[c].ref = HandlesOn(c) + PendingOn(c)
                            + (IF Registered(c) THEN 1 ELSE 0)
            /\ rec[c].ref >= 0

\* the JSON texts of the records of a stream: what stands before each of
\* its line feeds
RECURSIVE Records(_)
Records(b) ==
    IF memchr(b) = 0 THEN <<>>
    ELSE <<SubSeq(b, 1, memchr(b) - 1)>> \o Records(SubSeq(b, memchr(b) + 1, Len(b)))

\* a stream of records that end in a line feed, each a JSON text and each
\* of at most MAX_MSGSIZE bytes with its line feed
WellFormed(b) ==
    /\ b # <<>> => b[Len(b)] = LF
    /\ \A i \in 1..Len(Records(b)) :
        LET r == Records(b)[i]
        IN /\ r # <<>>
           /\ Len(r) + 1 <= MAX_MSGSIZE
           /\ \A j \in 1..Len(r) : r[j] \in JsonBytes

\* C3: inbound framing.  Of a stream of k records, each a JSON text of at
\* most MAX_MSGSIZE bytes with its line feed, the frames forwarded are at
\* every moment the first records in their order, the parser never
\* invalidates the client, and once every byte is read and parsed the frames
\* are the k records; whatever pieces the reads return.
InboundFraming ==
    (parse.pc # "idle" /\ WellFormed(parse.sent)) =>
        /\ parse.why \in {"none", "recv"}
        /\ IsPrefix(parse.out, Records(parse.sent))
        /\ (parse.pc = "retry" /\ parse.unread = <<>>) =>
               parse.out = Records(parse.sent)

\* C3, its case: two records were sent, the first is forwarded, a piece of
\* the second is in the buffer and the rest is still to be read
RecordAcrossReads ==
    /\ parse.pc = "retry"
    /\ WellFormed(parse.sent)
    /\ Len(Records(parse.sent)) = 2
    /\ Len(parse.out) = 1
    /\ parse.buf # <<>>
    /\ parse.unread # <<>>

\* x is an id of 32 bits: 0 <= x < 2^32
Is32(x) == x[1] = 0 /\ x[2] = 0

\* the passthrough client whose message is followed sent a sub id s with
\* 0 <= s < 2^32
SubIdSent ==
    /\ msg.pc \in {"forwarded", "routed"}
    /\ msg.client.passthrough
    /\ msg.val.client_id.t = "int"
    /\ Is32(msg.val.client_id.v)

\* C8: id encoding round trip.  The client_id (p << 32) | s that the
\* message of a passthrough client p, 1 <= p < 2^32, with the sub id s,
\* 0 <= s < 2^32, is forwarded under passes the test id > 0xffffffff and
\* decodes to id >> 32 = p and id & 0xffffffff = s.
IdRoundTrip ==
    SubIdSent =>
        LET id == msg.frame.client_id.v
        IN /\ GtU32(id)
           /\ Sar32(id) = msg.client.id
           /\ And32(id) = msg.val.client_id.v

\* C9: egress routing.  The answer to a frame of a sub client is routed to
\* the passthrough parent and carries the sub id as its client_id; the
\* answer to a frame of a direct client is routed to that client and
\* carries no client_id.
EgressRouting ==
    /\ (SubIdSent /\ msg.pc = "routed") =>
           /\ msg.target = msg.client.id
           /\ msg.cid = msg.val.client_id.v
    /\ (msg.pc = "routed" /\ ~msg.client.passthrough) =>
           /\ msg.target = msg.client.id
           /\ msg.cid = Absent

\* C10: ingress decoration.  The frame of a direct client carries the
\* client's id, its peer address and its listener's index, whatever the
\* client sent under those names; the frame of a passthrough client carries
\* (id << 32) | the client_id it sent (0 if it sent no integer) and the
\* listener's index, and the address it sent or none.
IngressDecoration ==
    msg.pc \in {"forwarded", "routed"} =>
        /\ msg.frame.server = JInt(I64(msg.client.server))
        /\ ~msg.client.passthrough =>
               /\ msg.frame.client_id = JInt(msg.client.id)
               /\ msg.frame.address = JStr(msg.client.address_name)
        /\ msg.client.passthrough =>
               /\ msg.frame.client_id =
                      JInt(Or64(Shl32(msg.client.id),
                                IF msg.val.client_id.t = "int"
                                THEN msg.val.client_id.v ELSE I64(0)))
               /\ msg.frame.address = msg.val.address

\* C10, its case: a direct client that sent a client_id, an address and a
\* server of its own had its message forwarded
DecoratedOverSent ==
    /\ msg.pc = "forwarded"
    /\ ~msg.client.passthrough
    /\ msg.val.client_id = JInt(MinusOne)
    /\ msg.val.address = JStr("sent")
    /\ msg.val.server = JInt(I64(7))

\* the bytes of the stream that read(2) has handed over so far
Consumed == SubSeq(parse.sent, 1, Len(parse.sent) - Len(parse.unread))

\* b holds a record of more than MAX_MSGSIZE bytes, its line feed counted,
\* or ends in more than MAX_MSGSIZE bytes without a line feed
RECURSIVE TooLong(_)
TooLong(b) ==
    IF memchr(b) = 0 THEN Len(b) > MAX_MSGSIZE
    ELSE memchr(b) > MAX_MSGSIZE \/ TooLong(SubSeq(b, memchr(b) + 1, Len(b)))

\* b holds more than MAX_MSGSIZE bytes of one record before its line feed,
\* or before its end when the line feed is yet to come
RECURSIVE TooLongBeforeLF(_)
TooLongBeforeLF(b) ==
    IF memchr(b) = 0 THEN Len(b) > MAX_MSGSIZE
    ELSE memchr(b) - 1 > MAX_MSGSIZE
         \/ TooLongBeforeLF(SubSeq(b, memchr(b) + 1, Len(b)))

\* the client was given up for size
BySize == parse.why \in {"overload", "oversize"}

\* parse_client_msg has returned or waits for more bytes of a client it
\* has not given up
AtRest == parse.pc = "retry" /\ Len(parse.buf) <= MAX_MSGSIZE

\* what invalidate_client has done to the client given up for size: it is
\* invalid and out of the hash, its descriptor is out of the poller and the
\* stratifier has the dropclient of its id
SizeDropDone ==
    (parse.pc = "dropped" /\ BySize) =>
        /\ rec[rcv.client].invalid
        /\ rcv.client \notin clients
        /\ epoll[rec[rcv.client].fd] = NoId
        /\ Id64(rec[rcv.client].id) \in stratifier

ErrorLineDelivered ==
    [][(/\ snd.pc = "walk"
        /\ snd'.pc = "clear"
        /\ snd.idx <= Len(sends)
        /\ sends[snd.idx].kind = "error") => sends'[snd.idx].len = 0]_vars

\* C13: drop notification.  Whenever a client is invalidated a consumer is
\* told: the stratifier gets the dropclient of its id when it is a direct
\* client, the generator gets the mining.term of its id when it is a
\* passthrough parent.
DropNotified ==
    [][\A c \in Recs :
        (~rec[c].invalid /\ rec'[c].invalid) =>
            IF rec[c].passthrough
            THEN Id64(rec[c].id) \in generator'
            ELSE Id64(rec[c].id) \in stratifier']_vars

\* C14: capacity.  With a maximum of clients configured the hash never
\* holds more than that many; an accept_client entered while the hash holds
\* the maximum or more begins no accept, recruits no structure, inserts
\* nothing and changes no counter.
CapacityKept ==
    [][/\ Cardinality(clients') <= LowMaxClients
       /\ (/\ rcv.pc = "poll"
           /\ rcv' # rcv
           /\ Cardinality(clients) >= LowMaxClients) =>
              /\ rcv'.pc # "accept"
              /\ UNCHANGED <<clients, recycled_clients, clients_generated,
                             client_id, nfds, nconn>>]_vars

\* C14, its case: the hash holds the maximum and the receiver is back from
\* epoll_wait while the listener has a connection to hand over
ListenerEventAtCapacity ==
    /\ Cardinality(clients) = LowMaxClients
    /\ rcv.pc = "poll"
    /\ nconn = 1
    /\ nconn < MaxAccepts

\* C15: id assignment.  cdata->client_id starts at the number of listeners
\* and never falls; every structure inserted into the hash gets the
\* counter's value and advances it by one, a recycled structure included, so
\* the ids of insertions rise strictly and none is given twice; no
\* structure in the hash has an id below the number of listeners; and a
\* client socket registered with the poller never carries event data below
\* the number of listeners.
IdAssignment ==
    [][/\ client_id >= serverurls
       /\ client_id' >= client_id
       /\ \A c \in Recs :
            (c \in clients' /\ c \notin clients) =>
                /\ rec'[c].id = client_id
                /\ client_id' = client_id + 1
       /\ \A c \in clients' : rec'[c].id \notin 0..(serverurls - 1)
       /\ \A f \in FDs : epoll'[f] # NoId => epoll'[f] \notin ListenerData]_vars

\* C16: the dropclient command.  For the id of a client in the hash that is
\* no passthrough sub-id, ref_client_by_id hands the control loop that
\* client with one reference more, invalidate_client leaves it invalid and
\* out of the hash, and dec_instance_ref gives the reference back; for an id
\* above 0xffffffff or an id that is not in the hash the command changes no
\* structure, no reference and none of the hash, the dead list and the
\* recycled list.
DropclientCommand ==
    [][/\ (ctl.pc = "idle" /\ ctl'.pc = "inval") =>
            /\ ctl'.client \in clients
            /\ ~rec[ctl'.client].invalid
            /\ ~GtU32(Id64(rec[ctl'.client].id))
            /\ rec' = [rec EXCEPT ![ctl'.client].ref = @ + 1]
       /\ (ctl.pc = "inval" /\ ctl'.pc = "cull") =>
            /\ rec'[ctl.client].invalid
            /\ ctl.client \notin clients'
       /\ (ctl.pc = "unref" /\ ctl'.pc = "idle") =>
            rec' = [rec EXCEPT ![ctl.client].ref = @ - 1]
       /\ (ncmds' # ncmds /\ ctl' = ctl /\ accept' = accept) =>
            UNCHANGED <<rec, clients, dead_clients, recycled_clients>>]_vars

\* C17 as stated: the accept gate.  While cdata->accept is false, before the
\* first accept command and after a reject command, a receiver that is not
\* handling an event begins none: it accepts no connection and reads from no
\* client.
GateHoldsAtOnce ==
    [][(~accept /\ rcv.pc \in {"wait", "poll"}) =>
            rcv'.pc \in {"wait", "poll"}]_vars

\* C17: the accept gate.  While cdata->accept is false, a receiver at the
\* top of its loop stays there and does nothing, before the first accept
\* command and after a reject command; and every event the receiver has
\* handled brings it back to the test of cdata->accept, so that after a
\* reject command it finishes the event it is handling or handles the one
\* event the epoll_wait it is in returns, and no other.
AcceptGate ==
    [][/\ (~accept /\ rcv.pc = "wait") => rcv' = rcv
       /\ rcv.pc \notin {"wait", "poll"} => rcv'.pc # "poll"]_vars

\* C17, its case: a reject command was processed and the receiver is held at
\* the top of its loop although a client socket is registered with the
\* poller and the listener has a connection to hand over
HeldAfterReject ==
    /\ ~accept
    /\ ncmds >= 2
    /\ rcv.pc = "wait"
    /\ clients # {}
    /\ \E f \in FDs : epoll[f] # NoId
    /\ nconn < MaxAccepts

\* C18: every update of a ref is made under the write lock, so none
\* interleaves with another: between the read and the write of ref that an
\* increment consists of, no other thread changes the ref of that structure.
RefUpdatesExclusive ==
    rcv.pc = "incref" => rec[rcv.client].ref = rcv.tmp

\* C19: field ownership.  While a structure is in the hash and not
\* invalid, its fd and its passthrough flag are written by the receiver
\* only: a step that changes either of them is a step of the receiver.
FieldOwnership ==
    [][\A c \in Recs :
        (/\ c \in clients /\ ~rec[c].invalid
         /\ c \in clients' /\ ~rec'[c].invalid
         /\ rec'[c].id = rec[c].id
         /\ \/ rec'[c].fd # rec[c].fd
            \/ rec'[c].passthrough # rec[c].passthrough) =>
                rcv' # rcv]_vars

\* C20: poller registration tracks liveness.  A client's socket is
\* registered with the poller only while its structure is in the hash and
\* not invalid; the step that invalidates a structure leaves it out of the
\* hash and its socket out of the poller.
RegistrationTracksLiveness ==
    [][/\ \A c \in Recs :
            Registered(c)' => (c \in clients' /\ ~rec'[c].invalid)
       /\ \A c \in Recs :
            (~rec[c].invalid /\ rec'[c].invalid) =>
                (c \notin clients' /\ ~Registered(c)')]_vars

(***************************************************************************)
(* One connected client with the three threads scheduled fairly: a thread  *)
(* that can take its next step takes it.  The events of the poller and    *)
(* the commands of the control socket come when they come.                 *)
(***************************************************************************)
\* the receiver's steps that wait for nothing outside the process
ReceiverRuns ==
    \/ RecvGate \/ RecvParse \/ RecvEnqueue \/ RecvInvalidate \/ RecvCull
    \/ RecvHangup \/ RecvUnref

\* the control loop's steps once it has a command
ControlRuns ==
    CtlSubclient \/ CtlEnqueue \/ CtlInvalidate \/ CtlCull \/ CtlUnref

NextLive ==
    \/ RecvGate \/ RecvEvent \/ RecvParse \/ RecvEnqueue \/ RecvInvalidate
    \/ RecvCull \/ RecvHangup \/ RecvUnref
    \/ SenderSend \/ SenderCull \/ SenderClear \/ SenderSplice
    \/ CtlJson \/ CtlDropclient \/ CtlSubclient \/ CtlEnqueue \/ CtlInvalidate
    \/ CtlCull \/ CtlUnref

SpecLive ==
    /\ InitSend
    /\ [][NextLive]_vars
    /\ WF_vars(ReceiverRuns)
    /\ WF_vars(Sender)
    /\ WF_vars(ControlRuns)

\* C21: recycling liveness.  A structure on the dead list whose ref is 0 is
\* eventually taken off the dead list and put on the recycled list, its
\* socket closed, whether or not another client is invalidated later.
RecyclingLiveness ==
    \A c \in Recs :
        (OnList(c, dead_clients) /\ rec[c].ref = 0) ~>
            (~OnList(c, dead_clients) /\ OnList(c, recycled_clients)
                /\ ~SocketOpen(c))

\* the bytes of frame n among the bytes w written to a connection
FrameOn(w, n) == SelectSeq(w, LAMBDA e : e[1] = n)

\* C22: the accounting of a pending send.  From send_client to its removal
\* a sender_send keeps ofs + len at the length of its frame, starting with
\* ofs = 0; exactly the first ofs bytes of the frame have been written to
\* its target's connection, and none to another; and the step that removes
\* it lowers the ref of its target by one and changes no other ref.
SenderAccounting ==
    [][/\ \A i \in 1..Len(PendingSends') :
            LET s == PendingSends'[i]
            IN /\ \A j \in 1..Len(PendingSends) :
                    PendingSends[j].n = s.n =>
                        s.ofs + s.len = PendingSends[j].ofs + PendingSends[j].len
               /\ (\A j \in 1..Len(PendingSends) : PendingSends[j].n # s.n) =>
                    (s.ofs = 0 /\ s.len > 0)
               /\ \E k \in Conns :
                    /\ FrameOn(wire'[k], s.n) = FrameBytes(s.n, s.ofs)
                    /\ \A o \in Conns \ {k} : FrameOn(wire'[o], s.n) = <<>>
       /\ \A j \in 1..Len(PendingSends) :
            (\A i \in 1..Len(PendingSends') :
                PendingSends'[i].n # PendingSends[j].n) =>
                    rec' = [rec EXCEPT ![PendingSends[j].client].ref = @ - 1]]_vars

\* drop_client, the value it returns: the fd it read, -1 when the structure
\* was invalid already
drop_ret(c) == IF ~rec[c].invalid THEN rec[c].fd ELSE -1

\* the structures on which this step runs drop_client, and those of the
\* invalidate_client calls whose cull this step runs
DropCalled ==
         (IF rcv.pc # "cull" /\ rcv'.pc = "cull" THEN {rcv'.client} ELSE {})
    \cup (IF snd.pc # "cull" /\ snd'.pc = "cull" THEN {sends[snd.idx].client} ELSE {})
    \cup (IF ctl.pc # "cull" /\ ctl'.pc = "cull" THEN {ctl'.client} ELSE {})
CullCalled ==
         (IF rcv.pc = "cull" /\ rcv'.pc # "cull" THEN {rcv.client} ELSE {})
    \cup (IF snd.pc = "cull" /\ snd'.pc # "cull" THEN {sends[snd.idx].client} ELSE {})
    \cup (IF ctl.pc = "cull" /\ ctl'.pc # "cull" THEN {ctl.client} ELSE {})

\* C23: invalidation is idempotent on the structure.  invalidate_client on
\* a structure in the hash that is not invalid returns an fd of 0 or more,
\* sets invalid, moves the structure from the hash to the dead list and
\* lowers its ref by one; on a structure that is invalid already it returns
\* -1 and changes neither its ref nor its invalid flag nor the list it is
\* on; and the cull that ends the call leaves the caller's structure, whose
\* reference the caller holds, as it is on the dead list.
InvalidateIdempotent ==
    [][/\ \A c \in DropCalled :
            /\ (c \in clients /\ ~rec[c].invalid) =>
                /\ drop_ret(c) >= 0
                /\ rec'[c].invalid
                /\ c \notin clients'
                /\ OnList(c, dead_clients')
                /\ rec'[c].ref = rec[c].ref - 1
            /\ rec[c].invalid =>
                /\ drop_ret(c) = -1
                /\ rec'[c] = rec[c]
                /\ (c \in clients') = (c \in clients)
                /\ dead_clients' = dead_clients
                /\ recycled_clients' = recycled_clients
       /\ \A c \in CullCalled :
            (rec[c].invalid /\ OnList(c, dead_clients)) =>
                /\ rec'[c] = rec[c]
                /\ OnList(c, dead_clients')
                /\ ~OnList(c, recycled_clients')]_vars

\* The receiver and the control loop without the sender, the listener handing
\* over MoreAccepts connections
NextStale ==
    \/ RecvGate \/ RecvAcceptBeginMore \/ RecvAccept \/ RecvInsert
    \/ RecvEpollAdd \/ RecvIncRef \/ RecvSetFd \/ RecvEvent \/ RecvParse
    \/ RecvEnqueue \/ RecvInvalidate \/ RecvCull \/ RecvHangup \/ RecvUnref
    \/ CtlAccept \/ CtlDropclient \/ CtlJson \/ CtlSubclient \/ CtlEnqueue
    \/ CtlInvalidate \/ CtlCull \/ CtlUnref

SpecStale == Init /\ [][NextStale]_vars

\* send_client finds no client for id: ref_client_by_id returns NULL
Unresolved(id) == ref_client_by_id(id).client = NoRec

High32(x) == I64Of(0, 0, x[1], x[2])

\* C25: passthrough identity isolation.  Whatever client_id a passthrough
\* client sent (none, a negative one, one of 2^32 or more), the high 32 bits
\* of the client_id its frame is forwarded under are the client's own id.
PassthroughIsolation ==
    (msg.pc \in {"forwarded", "routed"} /\ msg.client.passthrough) =>
        High32(json_integer_value(msg.frame.client_id)) = msg.client.id

====
